---- MODULE Spec2Model ----
(***************************************************************************)
(* A model of reprozip's packing engine (reprozip/pack.py): the pure       *)
(* helpers expand_patterns and data_path, the PackBuilder archive session  *)
(* and the pack() pipeline.                                                *)
(*                                                                         *)
(* Paths are rpaths PosixPath values.  A PosixPath is normalised when it   *)
(* is constructed, so a path value is modelled as the sequence of its      *)
(* components below the root: <<>> is '/', <<"a","b">> is '/a/b'.          *)
(* A File (tracer/common.py) is identified by its path alone (__eq__ and   *)
(* __hash__), and file lists hold the paths.                               *)
(***************************************************************************)
EXTENDS Integers, Sequences, FiniteSets, TLC

VARIABLES
    fs,          \* the filesystem snapshot: [dirs, files], sets of paths
    patterns,    \* expand_patterns: its argument
    expanded,    \* expand_patterns: [called, result]
    rawname,     \* data_path: the components the PosixPath is built from
    arcname,     \* data_path: [called, result]
    othername,   \* data_path: the components of a second PosixPath
    otherarc,    \* data_path: [called, result] for the second path
    opened_files, \* list_directories: the rows of the trace's table
    listed,      \* list_directories: [called, result]
    heap,        \* the list objects: their contents, by identity
    pkgref,      \* Package.files: the list object each package refers to
    fileA,       \* a File value
    fileB,       \* a value compared with it
    cmp,         \* [called, eq, hashA, hashB]: fileA == fileB and the hashes
    tar,         \* PackBuilder.tar: the archive's members, in archive order
    seen,        \* PackBuilder.seen: the paths add_data has added
    session,     \* PackBuilder: "none" (not constructed), "open", or
                 \* "closed" (close() has run: tar closed, seen = None)
    call,        \* PackBuilder: the last method call, [op, arg, raised]
    requested,   \* the paths add_data was called with so far
    pc,          \* pack(): the step it is at
    status,      \* pack(): "running", or how the process ended
    exc,         \* pack(): the exception that ended it, or "none"
    target,      \* the target path: "absent", "preexisting", "partial"
                 \* (opened for writing) or "complete" (closed archive)
    configFile,  \* whether directory/config.yml is a file
    traceFile,   \* directory/trace.sqlite3: "absent", "trace" or "empty"
    packages,    \* pack(): the packages, [name, packfiles, files]
    other_files, \* pack(): the loose-file list
    idx,         \* pack(): the index of the next package of the loop
    manifest0,   \* the manifest canonicalize_config returned
    warnings,    \* the logging.warning calls, in order
    calls,       \* the add_data calls of pack(), [by, path], in order
    required,    \* what list_directories returned
    dirsLeft,    \* the directories the last loop has still to visit
    tmpfiles,    \* the temporary files on disk
    canonical,   \* what save_config wrote: [saved, packages, other_files]
    trail        \* the steps of pack() that have run, in order

moreVars == <<othername, otherarc, opened_files, listed, heap, pkgref, fileA, fileB,
              cmp>>

pureVars == <<patterns, expanded, rawname, arcname, moreVars>>

builderVars == <<tar, seen, session, call, requested>>

diskVars == <<target, configFile, traceFile, tmpfiles>>

packVars == <<pc, status, exc, packages, other_files, idx, manifest0,
              warnings, calls, required, dirsLeft, canonical, trail>>

vars == <<fs, pureVars, builderVars, diskVars, packVars>>

----------------------------------------------------------------------------
(* Bounds and universes *)

Names == {"a", "b"}

MaxDepth == 2

MaxObjects == 3

MaxPatterns == 2

MaxRaw == 4

MaxOther == 2

MaxCalls == 2

SeqsUpTo(S, n) == UNION {[1..k -> S] : k \in 0..n}

AbsPaths == SeqsUpTo(Names, MaxDepth)

Root == <<>>

----------------------------------------------------------------------------
(* rpaths path arithmetic *)

\* Path.parent; the parent of the root is the root
Parent(p) == IF p = Root THEN Root ELSE SubSeq(p, 1, Len(p) - 1)

\* the values of `path` in "path = Path('/'); for c in p.components[1:]:
\* path = path / c": every prefix below the root, p itself included
WalkedPrefixes(p) == {SubSeq(p, 1, k) : k \in 1..Len(p)}

IsProperAncestor(a, p) == Len(a) < Len(p) /\ SubSeq(p, 1, Len(a)) = a

\* posixpath.normpath on an absolute path, as applied by PosixPath(...):
\* '.' is dropped, '..' removes the component before it and is a no-op at
\* the root
RECURSIVE NormFrom(_, _)
NormFrom(acc, rest) ==
    IF rest = <<>> THEN acc
    ELSE LET c == Head(rest) IN
         IF c = "." THEN NormFrom(acc, Tail(rest))
         ELSE IF c = ".." THEN
              NormFrom(IF acc = <<>> THEN acc ELSE SubSeq(acc, 1, Len(acc) - 1),
                       Tail(rest))
         ELSE NormFrom(Append(acc, c), Tail(rest))

\* PosixPath('/' + '/'.join(raw))
PosixPath(raw) == NormFrom(<<>>, raw)

\* "prefix / filename" without split_root(): joining onto an absolute path
\* discards the prefix
data_path_unsplit(filename) == filename

\* a data_path that keeps the file's name only, under DATA
data_path_flat(filename) ==
    <<"DATA">> \o (IF filename = <<>> THEN <<>>
                   ELSE <<filename[Len(filename)]>>)

\* data_path(filename): prefix / filename.split_root()[1], prefix = 'DATA'
data_path(filename) == <<"DATA">> \o filename

----------------------------------------------------------------------------
(* The filesystem snapshot *)

Exists(f, p) == p \in f.dirs \cup f.files

\* an is_dir() that answers yes for every path
IsDir_always(f, p) == TRUE

IsDir(f, p) == p \in f.dirs

\* a snapshot: the root is a directory, nothing is both a file and a
\* directory, and every object below the root lies in a directory
WellFormedFs(f) ==
    /\ Root \in f.dirs
    /\ f.dirs \cap f.files = {}
    /\ \A p \in (f.dirs \cup f.files) \ {Root} : Parent(p) \in f.dirs

\* the subsets of S with at most n elements
RECURSIVE SmallSubsets(_, _)
SmallSubsets(S, n) ==
    IF n = 0 THEN {{}}
    ELSE LET smaller == SmallSubsets(S, n - 1) IN
         smaller \cup {T \cup {x} : T \in smaller, x \in S}

\* the snapshots with one more object than f: a file or a directory
\* created in one of f's directories
Grown(f) ==
    UNION {{[f EXCEPT !.dirs = @ \cup {p}], [f EXCEPT !.files = @ \cup {p}]} :
              p \in {q \in AbsPaths \ (f.dirs \cup f.files) : Parent(q) \in f.dirs}}

\* the snapshots holding at most n objects below the root
RECURSIVE SnapshotsUpTo(_)
SnapshotsUpTo(n) ==
    IF n = 0 THEN {[dirs |-> {Root}, files |-> {}]}
    ELSE LET smaller == SnapshotsUpTo(n - 1) IN
         smaller \cup UNION {Grown(f) : f \in smaller}

AllSnapshots == SnapshotsUpTo(MaxObjects)

----------------------------------------------------------------------------
(* expand_patterns *)

Wild == "*"

\* a glob pattern, one token per path component; the empty pattern stands
\* for a pattern that matches the root itself
PatternTokens == {"a", Wild}

AllPatterns == SeqsUpTo(PatternTokens, MaxDepth)

\* whether recursedir(pattern) yields path p
Matches(pat, p) ==
    /\ Len(pat) = Len(p)
    /\ \A i \in 1..Len(p) : pat[i] \in {Wild, p[i]}

\* "for pattern in patterns: for path in Path('/').recursedir(pattern)"
Matched(f, pats) ==
    {p \in f.dirs \cup f.files : \E pat \in pats : Matches(pat, p)}

MatchedDirs(f, pats) == {p \in Matched(f, pats) : IsDir(f, p)}

MatchedFiles(f, pats) == Matched(f, pats) \ MatchedDirs(f, pats)

\* no walk at all: only the root is marked
non_empty_dirs_rootonly(f, pats) == {Root}

\* non_empty_dirs: the root and every path walked from the root down to
\* each matched path
non_empty_dirs(f, pats) ==
    {Root} \cup UNION {WalkedPrefixes(p) : p \in Matched(f, pats)}

\* the paths of the File values returned (the list's order is a set's
\* iteration order, so the result is modelled as the set of its entries)
expand_patterns(f, pats) ==
    (MatchedDirs(f, pats) \ non_empty_dirs(f, pats)) \cup MatchedFiles(f, pats)

----------------------------------------------------------------------------
(* PackBuilder *)

NoCall == [op |-> "none", arg |-> Root, raised |-> FALSE, early |-> FALSE]

\* a member added by add_data: tar.add(str(path), str(data_path(path)),
\* recursive=False)
DataMember(path) == [name |-> path, arcname |-> data_path(path)]

\* the loop of add_data from the k-th component on; tar.add raises when
\* the path is not on disk, and the exception leaves the loop
RECURSIVE AddDataWalk(_, _, _, _, _)
AddDataWalk(f, t, s, filename, k) ==
    IF k > Len(filename) THEN [tar |-> t, seen |-> s, raised |-> FALSE]
    ELSE LET path == SubSeq(filename, 1, k) IN
         IF path \in s THEN AddDataWalk(f, t, s, filename, k + 1)
         ELSE IF ~Exists(f, path) THEN [tar |-> t, seen |-> s, raised |-> TRUE]
         ELSE AddDataWalk(f, Append(t, DataMember(path)), s \cup {path},
                          filename, k + 1)

\* add_data that adds only the requested path, not the paths above it
add_data_leaf_only(f, t, s, filename) ==
    IF filename \in s \/ filename = Root
    THEN [tar |-> t, seen |-> s, raised |-> FALSE]
    ELSE IF ~Exists(f, filename) THEN [tar |-> t, seen |-> s, raised |-> TRUE]
    ELSE [tar |-> Append(t, DataMember(filename)), seen |-> s \cup {filename},
          raised |-> FALSE]

\* add_data without the seen ledger's checks: every walked path is added
\* again
RECURSIVE AddDataWalkNoLedger(_, _, _, _, _)
AddDataWalkNoLedger(f, t, s, filename, k) ==
    IF k > Len(filename) THEN [tar |-> t, seen |-> s, raised |-> FALSE]
    ELSE LET path == SubSeq(filename, 1, k) IN
         IF ~Exists(f, path) THEN [tar |-> t, seen |-> s, raised |-> TRUE]
         ELSE AddDataWalkNoLedger(f, Append(t, DataMember(path)),
                                  s \cup {path}, filename, k + 1)

add_data_no_ledger(f, t, s, filename) == AddDataWalkNoLedger(f, t, s, filename, 1)

\* add_data walking from the requested path up to the root
RECURSIVE AddDataWalkUp(_, _, _, _, _)
AddDataWalkUp(f, t, s, filename, k) ==
    IF k < 1 THEN [tar |-> t, seen |-> s, raised |-> FALSE]
    ELSE LET path == SubSeq(filename, 1, k) IN
         IF path \in s THEN AddDataWalkUp(f, t, s, filename, k - 1)
         ELSE IF ~Exists(f, path) THEN [tar |-> t, seen |-> s, raised |-> TRUE]
         ELSE AddDataWalkUp(f, Append(t, DataMember(path)), s \cup {path},
                            filename, k - 1)

add_data_leaf_first(f, t, s, filename) ==
    IF filename \in s THEN [tar |-> t, seen |-> s, raised |-> FALSE]
    ELSE AddDataWalkUp(f, t, s, filename, Len(filename))

\* PackBuilder.add_data(filename) on an open builder: the new tar and seen,
\* and whether the call raised
add_data(f, t, s, filename) ==
    IF filename \in s THEN [tar |-> t, seen |-> s, raised |-> FALSE]
    ELSE AddDataWalk(f, t, s, filename, 1)

\* the archive names of the DATA members, in archive order
IsData(m) == Len(m.arcname) >= 1 /\ m.arcname[1] = "DATA"

DataMembers(t) == SelectSeq(t, IsData)

SeqRange(q) == {q[i] : i \in 1..Len(q)}

NoManifest == [runs |-> <<>>, packages |-> <<>>, other_files |-> <<>>]

NotSaved ==
    [saved |-> FALSE, runs |-> <<>>, packages |-> <<>>, other_files |-> <<>>]

\* pack() has not been called
PackIdle ==
    /\ pc = "idle"
    /\ status = "running"
    /\ exc = "none"
    /\ target = "absent"
    /\ configFile = FALSE
    /\ traceFile = "absent"
    /\ packages = <<>>
    /\ other_files = <<>>
    /\ idx = 1
    /\ manifest0 = NoManifest
    /\ warnings = <<>>
    /\ calls = <<>>
    /\ required = {}
    /\ dirsLeft = {}
    /\ tmpfiles = {}
    /\ canonical = NotSaved
    /\ trail = <<>>

BuilderIdle ==
    /\ tar = <<>>
    /\ seen = {}
    /\ session = "open"
    /\ call = NoCall
    /\ requested = {}

NoFile == [kind |-> "none", path |-> <<>>, size |-> -1]

NoCmp == [called |-> FALSE, eq |-> FALSE, hashA |-> <<>>, hashB |-> <<>>]

\* no list_directories call, no Package and no File comparison
ListIdle == opened_files = {} /\ listed = [called |-> FALSE, result |-> {}]

PackageIdle == heap = <<>> /\ pkgref = <<>>

FileIdle == fileA = NoFile /\ fileB = NoFile /\ cmp = NoCmp

OtherIdle == othername = <<>> /\ otherarc = [called |-> FALSE, result |-> <<>>]

PureIdle ==
    /\ patterns = {}
    /\ expanded = [called |-> FALSE, result |-> {}]
    /\ rawname = <<>>
    /\ arcname = [called |-> FALSE, result |-> <<>>]
    /\ OtherIdle
    /\ ListIdle
    /\ PackageIdle
    /\ FileIdle

\* a PackBuilder just constructed, over any snapshot
InitBuilder ==
    /\ fs \in AllSnapshots
    /\ PureIdle
    /\ BuilderIdle
    /\ PackIdle

\* builder.add_data(p)
AddDataCall(p) ==
    /\ session = "open"
    /\ Cardinality(requested \cup {p}) <= MaxCalls
    /\ LET r == add_data(fs, tar, seen, p) IN
        /\ tar' = r.tar
        /\ seen' = r.seen
        /\ call' = [op |-> "add_data", arg |-> p, raised |-> r.raised,
                    early |-> p \in seen]
    /\ requested' = requested \cup {p}
    /\ UNCHANGED <<fs, pureVars, session, diskVars, packVars>>

NextBuilder == \E p \in AbsPaths : AddDataCall(p)

SpecBuilder == InitBuilder /\ [][NextBuilder]_vars

----------------------------------------------------------------------------
(* pack(): its inputs *)

MaxFiles == 2

MaxRows == 2

PkgNames == {"pkg"}

\* the paths a configuration may list
ListedPaths == {Root, <<"a">>, <<"a", "a">>, <<"a", "b">>, <<"b">>}

\* the snapshots pack() runs on: /a/a is a file in the directory /a, /a/b
\* is missing, and /b is missing or an empty directory
PackSnapshots ==
    {[dirs |-> {Root, <<"a">>}, files |-> {<<"a", "a">>}],
     [dirs |-> {Root, <<"a">>, <<"b">>}, files |-> {<<"a", "a">>}]}

PackPatterns == {{}, {<<"a", Wild>>}}

InjSeqs(S, n) ==
    {q \in SeqsUpTo(S, n) : \A i, j \in 1..Len(q) : q[i] = q[j] => i = j}

FileLists == InjSeqs(ListedPaths, MaxFiles)

\* Package(name, version, files, packfiles)
Package(name, packfiles, files) ==
    [name |-> name, packfiles |-> packfiles, files |-> files]

PackageLists ==
    {<<>>} \cup {<<Package(n, b, fl)>> : n \in PkgNames, b \in BOOLEAN,
                                         fl \in FileLists}

AllListed(pkgs) == UNION {SeqRange(pkgs[i].files) : i \in 1..Len(pkgs)}

\* the run descriptions of a configuration
RunLists == {<<"run0">>, <<"run0", "run1">>}

\* what load_config returns: a path is listed in one place only
Configs ==
    {c \in [runs : RunLists, packages : PackageLists, other_files : FileLists,
            patterns : PackPatterns] :
        AllListed(c.packages) \cap SeqRange(c.other_files) = {}}

\* the orders in which a set can be iterated
Orderings(S) == {q \in [1..Cardinality(S) -> S] : SeqRange(q) = S}

\* identify_packages(files): the files no package owns, and the packages
\* that own the others; either no file or every file is attributed
IdentifyOutcomes(files) ==
    {[files |-> files, packages |-> <<>>]} \cup
    (IF files = <<>> THEN {}
     ELSE {[files |-> <<>>,
            packages |-> <<Package(n, TRUE, files)>>] : n \in PkgNames})

\* the elements of q that are not in S, in order
Without(q, S) == SelectSeq(q, LAMBDA x : x \notin S)

\* the elements of q, each at its first position only
RECURSIVE FirstOnly(_, _)
FirstOnly(q, had) ==
    IF q = <<>> THEN <<>>
    ELSE IF Head(q) \in had THEN FirstOnly(Tail(q), had)
    ELSE <<Head(q)>> \o FirstOnly(Tail(q), had \cup {Head(q)})

PackageNames(pkgs) == {pkgs[i].name : i \in 1..Len(pkgs)}

\* the files the new packages attribute to the package called name
NewFilesOf(name, new_packages) ==
    IF \E i \in 1..Len(new_packages) : new_packages[i].name = name
    THEN (CHOOSE x \in SeqRange(new_packages) : x.name = name).files
    ELSE <<>>

\* merge_files(newfiles, newpackages, oldfiles, oldpackages): every file
\* once, in a package if the new or the old state attributes it to one,
\* loose otherwise
merge_files(newfiles, newpackages, oldfiles, oldpackages) ==
    LET old_owned == AllListed(oldpackages)
        merged == [i \in 1..Len(oldpackages) |->
                     [oldpackages[i] EXCEPT !.files =
                        @ \o Without(NewFilesOf(oldpackages[i].name,
                                                newpackages), old_owned)]]
        added == SelectSeq(newpackages,
                           LAMBDA x : x.name \notin PackageNames(oldpackages))
        fresh == [i \in 1..Len(added) |->
                     [added[i] EXCEPT !.files = Without(@, old_owned)]]
        pkgs == merged \o fresh
    IN [packages |-> pkgs,
        other_files |-> Without(FirstOnly(oldfiles \o newfiles, {}),
                                AllListed(pkgs))]

\* canonicalize_config(runs, packages, other_files, additional_patterns,
\* sort_packages), add_files being the list expand_patterns returned and
\* identified what identify_packages made of it
canonicalize_config(cfg, add_files, sort_packages, identified) ==
    LET m == IF sort_packages
             THEN merge_files(identified.files, identified.packages,
                              cfg.other_files, cfg.packages)
             ELSE merge_files(add_files, <<>>, cfg.other_files, cfg.packages)
    IN [runs |-> cfg.runs, packages |-> m.packages,
        other_files |-> m.other_files]

----------------------------------------------------------------------------
(* pack(): its steps *)

\* a member added by PackBuilder.add(name, arcname)
MetaMember(name, arc) == [name |-> <<"$", name>>, arcname |-> <<"METADATA", arc>>]

MaxAdds == 1

\* a PackBuilder on its own, over a snapshot pack() runs on
InitSession ==
    /\ fs \in PackSnapshots
    /\ PureIdle
    /\ BuilderIdle
    /\ PackIdle

\* the outcome of a call that raised and changed nothing
Raises(op, arg) ==
    /\ call' = [op |-> op, arg |-> arg, raised |-> TRUE, early |-> FALSE]
    /\ UNCHANGED <<tar, seen, session, requested>>

\* builder.add_data(p); after close(), seen is None and
\* "filename in self.seen" raises TypeError
SessionAddData(p) ==
    \/ AddDataCall(p)
    \/ /\ session = "closed"
       /\ Raises("add_data", p)
       /\ UNCHANGED <<fs, pureVars, diskVars, packVars>>

\* an add that writes into a closed archive
SessionAdd_reopen ==
    /\ \/ session = "open" /\ Len(tar) - Len(DataMembers(tar)) < MaxAdds
       \/ session = "closed"
    /\ tar' = Append(tar, MetaMember("tmp_version", "version"))
    /\ call' = [op |-> "add", arg |-> Root, raised |-> FALSE, early |-> FALSE]
    /\ UNCHANGED <<seen, session, requested>>
    /\ UNCHANGED <<fs, pureVars, diskVars, packVars>>

\* builder.add(name, arcname) of an existing file; on a closed TarFile,
\* tar.add raises OSError: TarFile is closed
SessionAdd ==
    /\ \/ /\ session = "open"
          /\ Len(tar) - Len(DataMembers(tar)) < MaxAdds
          /\ tar' = Append(tar, MetaMember("tmp_version", "version"))
          /\ call' = [op |-> "add", arg |-> Root, raised |-> FALSE,
                      early |-> FALSE]
          /\ UNCHANGED <<seen, session, requested>>
       \/ /\ session = "closed"
          /\ Raises("add", Root)
    /\ UNCHANGED <<fs, pureVars, diskVars, packVars>>

\* builder.close(); TarFile.close() on a closed TarFile returns at once
\* without an error, and seen is set to None again
SessionClose ==
    /\ session \in {"open", "closed"}
    /\ session' = "closed"
    /\ seen' = {}
    /\ call' = [op |-> "close", arg |-> Root, raised |-> FALSE, early |-> FALSE]
    /\ UNCHANGED <<tar, requested>>
    /\ UNCHANGED <<fs, pureVars, diskVars, packVars>>

NextSession ==
    \/ \E p \in AbsPaths : SessionAddData(p)
    \/ SessionAdd
    \/ SessionClose

SpecSession == InitSession /\ [][NextSession]_vars

\* "if pkg.packfiles" with the test dropped
ShouldPack_always(pkg) == TRUE

\* "if pkg.packfiles:"
ShouldPack(pkg) == pkg.packfiles

\* one iteration of "for f in ...": st is [tar, seen, files, warnings,
\* calls, raised], x the file, by the list it comes from
LoopStep_keep_missing(f, st, x, by) ==
    IF ~Exists(f, x)
    THEN [st EXCEPT !.warnings = Append(@, [file |-> x, by |-> by]),
                    !.files = Append(@, x)]
    ELSE LET r == add_data(f, st.tar, st.seen, x) IN
         [st EXCEPT !.tar = r.tar, !.seen = r.seen,
                    !.calls = Append(@, [by |-> by, path |-> x]),
                    !.files = IF r.raised THEN @ ELSE Append(@, x),
                    !.raised = r.raised]

LoopStep_no_add(f, st, x, by) ==
    IF ~Exists(f, x)
    THEN [st EXCEPT !.warnings = Append(@, [file |-> x, by |-> by])]
    ELSE [st EXCEPT !.files = Append(@, x)]

LoopStep(f, st, x, by) ==
    IF ~Exists(f, x)
    THEN [st EXCEPT !.warnings = Append(@, [file |-> x, by |-> by])]
    ELSE LET r == add_data(f, st.tar, st.seen, x) IN
         [st EXCEPT !.tar = r.tar, !.seen = r.seen,
                    !.calls = Append(@, [by |-> by, path |-> x]),
                    !.files = IF r.raised THEN @ ELSE Append(@, x),
                    !.raised = r.raised]

\* "files = []; for f in list: ..." up to an exception
RECURSIVE FileLoop(_, _, _, _)
FileLoop(f, st, list, by) ==
    IF list = <<>> \/ st.raised THEN st
    ELSE FileLoop(f, LoopStep(f, st, Head(list), by), Tail(list), by)

LoopState ==
    [tar |-> tar, seen |-> seen, files |-> <<>>, warnings |-> warnings,
     calls |-> calls, raised |-> FALSE]

\* the process ends: sys.exit(1), an uncaught exception, or the return
Ends(how, e) ==
    /\ pc' = how
    /\ status' = IF how = "done" THEN "success" ELSE "failure"
    /\ exc' = e

Goes(to) == pc' = to /\ UNCHANGED <<status, exc>>

Did(step) == trail' = Append(trail, step)

\* pack(target, directory, sort_packages) is called: nothing has run
InitPack ==
    /\ fs \in PackSnapshots
    /\ PureIdle
    /\ tar = <<>> /\ seen = {} /\ session = "none"
    /\ call = NoCall /\ requested = {}
    /\ pc = "start" /\ status = "running" /\ exc = "none"
    /\ target \in {"absent", "preexisting"}
    /\ configFile \in BOOLEAN
    /\ traceFile \in {"absent", "trace"}
    /\ packages = <<>> /\ other_files = <<>> /\ idx = 1
    /\ manifest0 = NoManifest
    /\ warnings = <<>> /\ calls = <<>>
    /\ required = {} /\ dirsLeft = {}
    /\ tmpfiles = {}
    /\ canonical = NotSaved
    /\ trail = <<>>

\* the existence check dropped: an existing target is overwritten
CheckTarget_overwrite ==
    /\ pc = "start"
    /\ Goes("config")
    /\ UNCHANGED <<fs, pureVars, builderVars, diskVars, packages, other_files,
                   idx, manifest0, warnings, calls, required, dirsLeft,
                   canonical, trail>>

\* "if target.exists(): ... sys.exit(1)"
CheckTarget ==
    /\ pc = "start"
    /\ IF target # "absent" THEN Ends("exit", "SystemExit") ELSE Goes("config")
    /\ UNCHANGED <<fs, pureVars, builderVars, diskVars, packages, other_files,
                   idx, manifest0, warnings, calls, required, dirsLeft,
                   canonical, trail>>

\* "if not configfile.is_file(): ... sys.exit(1)"
CheckConfig ==
    /\ pc = "config"
    /\ IF ~configFile THEN Ends("exit", "SystemExit") ELSE Goes("load")
    /\ UNCHANGED <<fs, pureVars, builderVars, diskVars, packages, other_files,
                   idx, manifest0, warnings, calls, required, dirsLeft,
                   canonical, trail>>

\* load_config and canonicalize_config
LoadCanonicalize ==
    /\ pc = "load"
    /\ \E cfg \in Configs, sort_packages \in BOOLEAN :
        \E add_files \in Orderings(expand_patterns(fs, cfg.patterns)) :
            \E identified \in IdentifyOutcomes(add_files) :
                LET m == canonicalize_config(cfg, add_files, sort_packages,
                                             identified) IN
                /\ Len(m.other_files) <= MaxFiles
                /\ \A i \in 1..Len(m.packages) :
                       Len(m.packages[i].files) <= MaxFiles
                /\ packages' = m.packages
                /\ other_files' = m.other_files
                /\ manifest0' = m
    /\ Goes("open")
    /\ Did("canonicalize")
    /\ UNCHANGED <<fs, pureVars, builderVars, diskVars, idx, warnings, calls,
                   required, dirsLeft, canonical>>

\* a PackBuilder that writes the version entry as soon as it is opened
OpenArchive_early_version ==
    /\ pc = "open"
    /\ target' = "partial"
    /\ tar' = <<MetaMember("tmp_version", "version")>>
    /\ seen' = {} /\ session' = "open"
    /\ Goes("trace")
    /\ Did("open")
    /\ UNCHANGED <<fs, pureVars, call, requested, configFile, traceFile,
                   tmpfiles, packages, other_files, idx, manifest0, warnings,
                   calls, required, dirsLeft, canonical>>

\* tar = PackBuilder(target): tarfile.open(str(filename), 'w:gz')
OpenArchive ==
    /\ pc = "open"
    /\ target' = "partial"
    /\ tar' = <<>> /\ seen' = {} /\ session' = "open"
    /\ Goes("trace")
    /\ Did("open")
    /\ UNCHANGED <<fs, pureVars, call, requested, configFile, traceFile,
                   tmpfiles, packages, other_files, idx, manifest0, warnings,
                   calls, required, dirsLeft, canonical>>

\* "if trace.is_file(): tar.add(trace, Path('METADATA/trace.sqlite3'))"
AddTrace ==
    /\ pc = "trace"
    /\ IF traceFile # "absent"
       THEN /\ tar' = Append(tar, MetaMember("trace", "trace.sqlite3"))
            /\ Did("trace")
       ELSE UNCHANGED <<tar, trail>>
    /\ Goes(IF packages = <<>> THEN "others" ELSE "packages")
    /\ UNCHANGED <<fs, pureVars, seen, session, call, requested, diskVars,
                   packages, other_files, idx, manifest0, warnings, calls,
                   required, dirsLeft, canonical>>

\* one iteration of "for pkg in packages:"
PackPackage ==
    /\ pc = "packages"
    /\ LET pkg == packages[idx] IN
       IF ShouldPack(pkg)
       THEN LET st == FileLoop(fs, LoopState, pkg.files, pkg.name) IN
            /\ tar' = st.tar
            /\ seen' = st.seen
            /\ warnings' = st.warnings
            /\ calls' = st.calls
            /\ IF st.raised
               THEN /\ Ends("raised", "OSError")
                    /\ UNCHANGED <<packages, idx>>
               ELSE /\ packages' = [packages EXCEPT ![idx].files = st.files]
                    /\ idx' = idx + 1
                    /\ Goes(IF idx = Len(packages) THEN "others" ELSE "packages")
       ELSE /\ idx' = idx + 1
            /\ Goes(IF idx = Len(packages) THEN "others" ELSE "packages")
            /\ UNCHANGED <<tar, seen, warnings, calls, packages>>
    /\ Did("package")
    /\ UNCHANGED <<fs, pureVars, session, call, requested, diskVars,
                   other_files, manifest0, required, dirsLeft, canonical>>

\* "for f in other_files: ...; other_files = files"
PackOthers ==
    /\ pc = "others"
    /\ LET st == FileLoop(fs, LoopState, other_files, "other") IN
        /\ tar' = st.tar
        /\ seen' = st.seen
        /\ warnings' = st.warnings
        /\ calls' = st.calls
        /\ IF st.raised
           THEN Ends("raised", "OSError") /\ UNCHANGED other_files
           ELSE Goes("listdirs") /\ other_files' = st.files
    /\ Did("others")
    /\ UNCHANGED <<fs, pureVars, session, call, requested, diskVars, packages,
                   idx, manifest0, required, dirsLeft, canonical>>

\* the rows of the trace's opened_files table: [name, mode]
TraceRows ==
    [name : {<<"a">>, <<"b">>, <<"a", "a">>}, mode : {"READ", "WRITE", "WDIR"}]

\* a list_directories that takes the written file itself for a directory
list_directories_own(rows) ==
    {r.name : r \in {x \in rows : x.mode = "WDIR" \/ x.mode = "WRITE"}}

\* list_directories on a trace holding these rows: the SELECT keeps the
\* FILE_WDIR and FILE_WRITE rows
list_directories(rows) ==
    {IF r.mode = "WDIR" THEN r.name ELSE Parent(r.name) :
        r \in {x \in rows : x.mode = "WDIR" \/ x.mode = "WRITE"}}

\* "for directory in list_directories(trace):" up to the first iteration.
\* sqlite3.connect creates the database file when it is missing, and the
\* SELECT then raises OperationalError: no such table
ListDirectories ==
    /\ pc = "listdirs"
    /\ IF traceFile = "absent"
       THEN /\ traceFile' = "empty"
            /\ Ends("raised", "OperationalError")
            /\ UNCHANGED <<required, dirsLeft>>
       ELSE /\ \E rows \in SmallSubsets(TraceRows, MaxRows) :
                /\ required' = list_directories(rows)
                /\ dirsLeft' = list_directories(rows)
                /\ Goes(IF list_directories(rows) = {} THEN "version" ELSE "dirs")
            /\ UNCHANGED traceFile
    /\ Did("list_directories")
    /\ UNCHANGED <<fs, pureVars, builderVars, target, configFile, tmpfiles,
                   packages, other_files, idx, manifest0, warnings, calls,
                   canonical>>

\* one iteration of "for directory in ...: if directory.is_dir(): ..."
PackDirectory ==
    /\ pc = "dirs"
    /\ \E d \in dirsLeft :
        /\ dirsLeft' = dirsLeft \ {d}
        /\ IF IsDir(fs, d)
           THEN LET r == add_data(fs, tar, seen, d) IN
                /\ tar' = r.tar
                /\ seen' = r.seen
                /\ calls' = Append(calls, [by |-> "dir", path |-> d])
                /\ IF r.raised THEN Ends("raised", "OSError")
                   ELSE Goes(IF dirsLeft = {d} THEN "version" ELSE "dirs")
           ELSE /\ Goes(IF dirsLeft = {d} THEN "version" ELSE "dirs")
                /\ UNCHANGED <<tar, seen, calls>>
    /\ Did("directory")
    /\ UNCHANGED <<fs, pureVars, session, call, requested, diskVars, packages,
                   other_files, idx, manifest0, warnings, required, canonical>>

\* "fd, manifest = Path.tempfile(...); os.close(fd)"
MakeVersionTmp ==
    /\ pc = "version"
    /\ tmpfiles' = tmpfiles \cup {"version"}
    /\ Goes("version_add")
    /\ UNCHANGED <<fs, pureVars, builderVars, target, configFile, traceFile,
                   packages, other_files, idx, manifest0, warnings, calls,
                   required, dirsLeft, canonical, trail>>

\* "try: write; tar.add(manifest, Path('METADATA/version'))
\*  finally: manifest.remove()"
AddVersion ==
    /\ pc = "version_add"
    /\ tar' = Append(tar, MetaMember("tmp_version", "version"))
    /\ tmpfiles' = tmpfiles \ {"version"}
    /\ Goes("config_tmp")
    /\ Did("version")
    /\ UNCHANGED <<fs, pureVars, seen, session, call, requested, target,
                   configFile, traceFile, packages, other_files, idx,
                   manifest0, warnings, calls, required, dirsLeft, canonical>>

\* "fd, can_configfile = Path.tempfile(...); os.close(fd)"
MakeConfigTmp ==
    /\ pc = "config_tmp"
    /\ tmpfiles' = tmpfiles \cup {"config"}
    /\ Goes("config_add")
    /\ UNCHANGED <<fs, pureVars, builderVars, target, configFile, traceFile,
                   packages, other_files, idx, manifest0, warnings, calls,
                   required, dirsLeft, canonical, trail>>

\* "try: save_config(...); tar.add(can_configfile,
\*  Path('METADATA/config.yml')) finally: can_configfile.remove()"
AddConfig ==
    /\ pc = "config_add"
    /\ canonical' = [saved |-> TRUE, runs |-> manifest0.runs,
                     packages |-> packages, other_files |-> other_files]
    /\ tar' = Append(tar, MetaMember("tmp_config", "config.yml"))
    /\ tmpfiles' = tmpfiles \ {"config"}
    /\ Goes("close")
    /\ Did("config")
    /\ UNCHANGED <<fs, pureVars, seen, session, call, requested, target,
                   configFile, traceFile, packages, other_files, idx,
                   manifest0, warnings, calls, required, dirsLeft>>

\* tar.close(): the archive is finalised and seen is None; pack returns
Close ==
    /\ pc = "close"
    /\ session' = "closed"
    /\ seen' = {}
    /\ target' = "complete"
    /\ Ends("done", "none")
    /\ Did("close")
    /\ UNCHANGED <<fs, pureVars, tar, call, requested, configFile, traceFile,
                   tmpfiles, packages, other_files, idx, manifest0, warnings,
                   calls, required, dirsLeft, canonical>>

\* the steps that read or write files once the archive is open, and what
\* the trail records when one of them fails
FailedAt ==
    [trace |-> "failed_trace", packages |-> "failed_package",
     others |-> "failed_others", dirs |-> "failed_directory",
     version |-> "failed_version_tmp", version_add |-> "failed_version",
     config_tmp |-> "failed_config_tmp", config_add |-> "failed_config",
     close |-> "failed_close"]

IoSteps == DOMAIN FailedAt

\* an I/O error whose exception skips the finally clauses
IoFailure_no_finally ==
    /\ pc \in IoSteps
    /\ Ends("raised", "IOError")
    /\ Did(FailedAt[pc])
    /\ UNCHANGED <<fs, pureVars, builderVars, target, configFile, traceFile,
                   tmpfiles, packages, other_files, idx, manifest0, warnings,
                   calls, required, dirsLeft, canonical>>

\* an I/O error after which the unfinished archive is deleted
IoFailure_cleanup ==
    /\ pc \in IoSteps
    /\ tmpfiles' = {}
    /\ target' = "absent"
    /\ Ends("raised", "IOError")
    /\ Did(FailedAt[pc])
    /\ UNCHANGED <<fs, pureVars, builderVars, configFile, traceFile,
                   packages, other_files, idx, manifest0, warnings, calls,
                   required, dirsLeft, canonical>>

\* an I/O error (unreadable file, disk full, permission denied, no
\* temporary file) in a step: the exception propagates out of pack(),
\* through the finally clause of the step, which removes its temporary file
IoFailure ==
    /\ pc \in IoSteps
    /\ tmpfiles' = {}
    /\ Ends("raised", "IOError")
    /\ Did(FailedAt[pc])
    /\ UNCHANGED <<fs, pureVars, builderVars, target, configFile, traceFile,
                   packages, other_files, idx, manifest0, warnings, calls,
                   required, dirsLeft, canonical>>

\* pack() is called again, in a new process, for the target of a run that
\* an I/O error ended: the disk is as that run left it
PackAgain ==
    /\ pc = "raised" /\ exc = "IOError"
    /\ tar' = <<>> /\ seen' = {} /\ session' = "none"
    /\ call' = NoCall /\ requested' = {}
    /\ pc' = "start" /\ status' = "running" /\ exc' = "none"
    /\ packages' = <<>> /\ other_files' = <<>> /\ idx' = 1
    /\ manifest0' = NoManifest
    /\ warnings' = <<>> /\ calls' = <<>>
    /\ required' = {} /\ dirsLeft' = {}
    /\ canonical' = NotSaved
    /\ trail' = <<>>
    /\ UNCHANGED <<fs, pureVars, diskVars>>

Next ==
    \/ CheckTarget
    \/ CheckConfig
    \/ LoadCanonicalize
    \/ OpenArchive
    \/ AddTrace
    \/ PackPackage
    \/ PackOthers
    \/ ListDirectories
    \/ PackDirectory
    \/ MakeVersionTmp
    \/ AddVersion
    \/ MakeConfigTmp
    \/ AddConfig
    \/ Close
    \/ IoFailure
    \/ PackAgain

Spec == InitPack /\ [][Next]_vars

----------------------------------------------------------------------------
(* Specification of the pure helpers, on drawn inputs *)

RawTokens == Names \cup {"..", "."}

InitExpand ==
    /\ fs \in AllSnapshots
    /\ patterns \in SmallSubsets(AllPatterns, MaxPatterns)
    /\ expanded = [called |-> FALSE, result |-> {}]
    /\ rawname = <<>>
    /\ arcname = [called |-> FALSE, result |-> <<>>]
    /\ OtherIdle /\ ListIdle /\ PackageIdle /\ FileIdle
    /\ BuilderIdle
    /\ PackIdle

ExpandCall ==
    /\ ~expanded.called
    /\ expanded' = [called |-> TRUE, result |-> expand_patterns(fs, patterns)]
    /\ UNCHANGED <<fs, patterns, rawname, arcname, moreVars, builderVars, diskVars,
                   packVars>>

NextExpand == ExpandCall

SpecExpand == InitExpand /\ [][NextExpand]_vars

InitPath ==
    /\ fs = [dirs |-> {Root}, files |-> {}]
    /\ patterns = {}
    /\ expanded = [called |-> FALSE, result |-> {}]
    /\ rawname \in SeqsUpTo(RawTokens, MaxRaw)
    /\ arcname = [called |-> FALSE, result |-> <<>>]
    /\ othername \in SeqsUpTo(RawTokens, MaxOther)
    /\ otherarc = [called |-> FALSE, result |-> <<>>]
    /\ ListIdle /\ PackageIdle /\ FileIdle
    /\ BuilderIdle
    /\ PackIdle

DataPathCall ==
    /\ ~arcname.called
    /\ arcname' = [called |-> TRUE, result |-> data_path(PosixPath(rawname))]
    /\ UNCHANGED <<fs, patterns, expanded, rawname, moreVars, builderVars,
                   diskVars, packVars>>

\* data_path(PosixPath(othername)), a second call
DataPathOther ==
    /\ arcname.called
    /\ ~otherarc.called
    /\ otherarc' = [called |-> TRUE, result |-> data_path(PosixPath(othername))]
    /\ UNCHANGED <<fs, patterns, expanded, rawname, arcname, othername,
                   opened_files, listed, heap, pkgref, fileA, fileB, cmp, builderVars,
                   diskVars, packVars>>

NextPath == DataPathCall \/ DataPathOther

\* the rows a trace can hold, for list_directories called on its own
ListRows == [name : AbsPaths, mode : {"READ", "WRITE", "WDIR"}]

InitList ==
    /\ fs = [dirs |-> {Root}, files |-> {}]
    /\ patterns = {}
    /\ expanded = [called |-> FALSE, result |-> {}]
    /\ rawname = <<>>
    /\ arcname = [called |-> FALSE, result |-> <<>>]
    /\ opened_files \in SmallSubsets(ListRows, MaxRows)
    /\ listed = [called |-> FALSE, result |-> {}]
    /\ OtherIdle /\ PackageIdle /\ FileIdle
    /\ BuilderIdle
    /\ PackIdle

\* list_directories(database): the table is read, never written
ListCall ==
    /\ ~listed.called
    /\ listed' = [called |-> TRUE, result |-> list_directories(opened_files)]
    /\ UNCHANGED <<fs, patterns, expanded, rawname, arcname, othername,
                   otherarc, opened_files, heap, pkgref, fileA, fileB, cmp,
                   builderVars, diskVars, packVars>>

NextList == ListCall

SpecList == InitList /\ [][NextList]_vars

-----------------------------------------------------------------------------
(* Package: the list of files each one holds *)

MaxList == 2

PackageIds == {"p", "q"}

FileNames == {"f", "g"}

\* the list objects a constructor can be given: the list the "files=[]"
\* default was evaluated to, once, and a list of the caller's
GivenLists == {"default", "caller"}

\* the lists of two packages yet to be constructed and of their caller
InitPackage ==
    /\ fs = [dirs |-> {Root}, files |-> {}]
    /\ patterns = {}
    /\ expanded = [called |-> FALSE, result |-> {}]
    /\ rawname = <<>>
    /\ arcname = [called |-> FALSE, result |-> <<>>]
    /\ heap \in {[default |-> <<>>, caller |-> c] :
                    c \in SeqsUpTo(FileNames, MaxList)}
    /\ pkgref = <<>>
    /\ OtherIdle /\ ListIdle /\ FileIdle
    /\ BuilderIdle
    /\ PackIdle

PackageFrame ==
    UNCHANGED <<fs, patterns, expanded, rawname, arcname, othername, otherarc,
                opened_files, listed, fileA, fileB, cmp, builderVars,
                diskVars, packVars>>

\* g extended or overwritten at x
Bind(g, x, v) == [y \in DOMAIN g \cup {x} |-> IF y = x THEN v ELSE g[y]]

\* a constructor that keeps the list it was given: "self.files = files"
Construct_alias(p, given) ==
    /\ p \notin DOMAIN pkgref
    /\ pkgref' = Bind(pkgref, p, [files |-> given, given |-> given])
    /\ heap' = heap
    /\ PackageFrame

\* Package(name, version, files): "self.files = list(files)" makes a new
\* list object, named after the package here, with the given list's items
Construct(p, given) ==
    /\ p \notin DOMAIN pkgref
    /\ pkgref' = Bind(pkgref, p, [files |-> p, given |-> given])
    /\ heap' = Bind(heap, p, heap[given])
    /\ PackageFrame

\* pkg.add_file(filename): "self.files.append(filename)"
AddFile(p, f) ==
    /\ p \in DOMAIN pkgref
    /\ Len(heap[pkgref[p].files]) < MaxList
    /\ heap' = [heap EXCEPT ![pkgref[p].files] = Append(@, f)]
    /\ UNCHANGED pkgref
    /\ PackageFrame

\* pack()'s loop over one package: the files that exist are appended to
\* a new list, and "pkg.files = files" rebinds the attribute to it
Prune(p, existing) ==
    /\ p \in DOMAIN pkgref
    /\ LET kept(x) == x \in existing IN
        heap' = Bind(heap, p, SelectSeq(heap[pkgref[p].files], kept))
    /\ pkgref' = [pkgref EXCEPT ![p].files = p]
    /\ PackageFrame

\* the caller appends to the list it passed to a constructor
CallerAppend(f) ==
    /\ Len(heap["caller"]) < MaxList
    /\ heap' = [heap EXCEPT !["caller"] = Append(@, f)]
    /\ UNCHANGED pkgref
    /\ PackageFrame

NextPackage ==
    \/ \E p \in PackageIds, given \in GivenLists : Construct(p, given)
    \/ \E p \in PackageIds, f \in FileNames : AddFile(p, f)
    \/ \E p \in PackageIds, existing \in SUBSET FileNames : Prune(p, existing)
    \/ \E f \in FileNames : CallerAppend(f)

SpecPackage == InitPackage /\ [][NextPackage]_vars

-----------------------------------------------------------------------------
(* File: equality and hash *)

\* what File.__init__ stores as size: st_size, or None (-1 here) when
\* os.stat fails
Sizes == {-1, 0, 1}

\* File(path), constructed at some time: the size is the one the path
\* had then
FileValues == [kind : {"File"}, path : AbsPaths, size : Sizes]

\* values that are not instances of File: a bare path, a Package
OtherValues == [kind : {"Path", "Package"}, path : AbsPaths, size : {-1}]

\* hash(path): a function of the path
hash(path) == path

\* an equality over every attribute, as CommonEqualityMixin would define it
File_eq_attributes(self, other) ==
    other.kind = "File" /\ self.path = other.path /\ self.size = other.size

\* File.__eq__(self, other)
File_eq(self, other) == other.kind = "File" /\ self.path = other.path

\* File.__hash__(self)
File_hash(self) == hash(self.path)

InitFile ==
    /\ fs = [dirs |-> {Root}, files |-> {}]
    /\ patterns = {}
    /\ expanded = [called |-> FALSE, result |-> {}]
    /\ rawname = <<>>
    /\ arcname = [called |-> FALSE, result |-> <<>>]
    /\ fileA \in FileValues
    /\ fileB \in FileValues \cup OtherValues
    /\ cmp = NoCmp
    /\ OtherIdle /\ ListIdle /\ PackageIdle
    /\ BuilderIdle
    /\ PackIdle

\* "fileA == fileB", and the hashes of the two when both are Files
CompareFiles ==
    /\ ~cmp.called
    /\ cmp' = [called |-> TRUE,
               eq |-> File_eq(fileA, fileB),
               hashA |-> File_hash(fileA),
               hashB |-> IF fileB.kind = "File" THEN File_hash(fileB)
                         ELSE <<>>]
    /\ UNCHANGED <<fs, patterns, expanded, rawname, arcname, othername,
                   otherarc, opened_files, listed, heap, pkgref, fileA, fileB,
                   builderVars, diskVars, packVars>>

NextFile == CompareFiles

SpecFile == InitFile /\ [][NextFile]_vars

SpecPath == InitPath /\ [][NextPath]_vars

----------------------------------------------------------------------------
(* Claims about pack(), under Spec *)

Terminal == {"exit", "raised", "done"}

HasMember(arc) == \E i \in 1..Len(tar) : tar[i].arcname = arc

NothingRan ==
    /\ session = "none"
    /\ tar = <<>>
    /\ seen = {}
    /\ trail = <<>>
    /\ calls = <<>>
    /\ warnings = <<>>
    /\ tmpfiles = {}
    /\ manifest0 = NoManifest
    /\ canonical = NotSaved
    /\ traceFile \in {"absent", "trace"}

PreconditionFails == target = "preexisting" \/ ~configFile

FailsBeforeOpening ==
    PreconditionFails =>
        /\ pc \in {"start", "config", "exit"}
        /\ target \in {"absent", "preexisting"}
        /\ NothingRan
        /\ pc = "exit" => status = "failure" /\ exc = "SystemExit"

ExitsAtTheCheck ==
    /\ (pc = "start" /\ target = "preexisting") => (pc' = "exit" /\ target' = target)
    /\ (pc = "config" /\ ~configFile) => (pc' = "exit" /\ target' = target)

\* C1: with the target present or config.yml missing, pack() ends with a
\* failure status at the check: no PackBuilder exists, the target is as it
\* was, and no other step (merge, add, add_data, temporary file) has run.
C1_FailFast == [](FailsBeforeOpening) /\ [][ExitsAtTheCheck]_vars

\* config.yml is missing and pack() has exited at the second check
C1_Witness ==
    /\ pc = "exit"
    /\ ~configFile
    /\ target = "absent"
    /\ status = "failure"

\* C2: without a trace-record file (target absent, config.yml present)
\* pack() skips the trace copy, leaves the source directory as it is and,
\* unless an I/O error stops it, ends with success, the archive closed and
\* holding METADATA/version and METADATA/config.yml.
C2_TraceOptional ==
    (traceFile # "trace" /\ exc \notin {"IOError", "SystemExit"}) =>
        /\ traceFile = "absent"
        /\ ~HasMember(<<"METADATA", "trace.sqlite3">>)
        /\ pc \in Terminal =>
            /\ status = "success"
            /\ session = "closed"
            /\ HasMember(<<"METADATA", "version">>)
            /\ HasMember(<<"METADATA", "config.yml">>)

OnDisk(list) == SelectSeq(list, LAMBDA x : Exists(fs, x))

NotOnDisk(list) == SelectSeq(list, LAMBDA x : ~Exists(fs, x))

OthersDone == \E i \in 1..Len(trail) : trail[i] = "others"

\* the packed lists of the manifest pack() started from, in loop order,
\* that the loops have completed: [by, files]
CompletedLists ==
    LET pk == SelectSeq([i \in 1..Len(manifest0.packages) |->
                            [by |-> manifest0.packages[i].name,
                             at |-> i,
                             packed |-> manifest0.packages[i].packfiles,
                             files |-> manifest0.packages[i].files]],
                        LAMBDA e : e.packed /\ e.at < idx)
    IN [i \in 1..Len(pk) |-> [by |-> pk[i].by, files |-> pk[i].files]]
       \o (IF OthersDone
           THEN <<[by |-> "other", files |-> manifest0.other_files]>>
           ELSE <<>>)

RECURSIVE ExpectedWarnings(_)
ExpectedWarnings(lists) ==
    IF lists = <<>> THEN <<>>
    ELSE LET l == Head(lists)
             miss == NotOnDisk(l.files)
         IN [i \in 1..Len(miss) |-> [file |-> miss[i], by |-> l.by]]
            \o ExpectedWarnings(Tail(lists))

RECURSIVE ExpectedCalls(_)
ExpectedCalls(lists) ==
    IF lists = <<>> THEN <<>>
    ELSE LET l == Head(lists)
             kept == OnDisk(l.files)
         IN [i \in 1..Len(kept) |-> [by |-> l.by, path |-> kept[i]]]
            \o ExpectedCalls(Tail(lists))

ListCalls == SelectSeq(calls, LAMBDA c : c.by # "dir")

PrunedNotAborted ==
    /\ exc # "OSError"
    /\ status = "failure" => exc \in {"SystemExit", "IOError", "OperationalError"}
    /\ Len(packages) = Len(manifest0.packages)
    /\ \A i \in 1..Len(packages) :
        packages[i].files =
            IF i < idx /\ packages[i].packfiles
            THEN OnDisk(manifest0.packages[i].files)
            ELSE manifest0.packages[i].files
    /\ other_files =
        IF OthersDone THEN OnDisk(manifest0.other_files)
        ELSE manifest0.other_files
    /\ warnings = ExpectedWarnings(CompletedLists)
    /\ ListCalls = ExpectedCalls(CompletedLists)
    /\ \A i \in 1..Len(warnings) :
        /\ ~Exists(fs, warnings[i].file)
        /\ ~HasMember(data_path(warnings[i].file))
    /\ \A i \in 1..Len(tar) : IsData(tar[i]) => Exists(fs, tar[i].name)
    /\ canonical.saved =>
        /\ canonical.other_files = OnDisk(manifest0.other_files)
        /\ Len(canonical.packages) = Len(manifest0.packages)
        /\ \A i \in 1..Len(canonical.packages) :
            /\ canonical.packages[i].packfiles =>
                canonical.packages[i].files = OnDisk(manifest0.packages[i].files)
            /\ canonical.packages[i].name = manifest0.packages[i].name

\* C5: for a package with packfiles = true and for the loose-file list,
\* pack() prunes instead of aborting: a listed file that is not on disk is
\* dropped with one warning and gets no archive entry, the files on disk
\* stay listed in their order and are passed to add_data, the pruned lists
\* are the ones written to METADATA/config.yml, and no failure is caused
\* by a warning.
C5_PruneNotAbort == PrunedNotAborted

\* pack() has succeeded after a warning for a package file and one for a
\* loose file, a file of each list having been kept
C5_Witness ==
    /\ pc = "done" /\ status = "success"
    /\ Len(warnings) = 2
    /\ warnings[1].by # "other" /\ warnings[2].by = "other"
    /\ Len(packages) = 1 /\ Len(packages[1].files) = 1
    /\ Len(other_files) = 1
    /\ canonical.saved

ListedIn(m) == AllListed(m.packages) \cup SeqRange(m.other_files)

PackedListedIn(m) ==
    UNION {SeqRange(m.packages[i].files) :
              i \in {j \in 1..Len(m.packages) : m.packages[j].packfiles}}
    \cup SeqRange(m.other_files)

\* C6 as claimed: in a closed archive every path the written manifest
\* lists, in any package or in the loose-file list, has its DATA entry
\* (read in the claim's favour for the root, which has no root-stripped
\* path).
C6_AllListedHaveEntries ==
    (pc = "done" /\ canonical.saved) =>
        \A x \in ListedIn(canonical) \ {Root} : HasMember(data_path(x))

\* C6, amended: in a closed archive every path other than the root that
\* the written manifest lists in the loose-file list or in a package with
\* packfiles = true has its DATA entry.
C6_PackedListedHaveEntries ==
    (pc = "done" /\ canonical.saved) =>
        \A x \in PackedListedIn(canonical) \ {Root} : HasMember(data_path(x))

\* a closed archive whose manifest lists a package file and a loose file
C6_Witness ==
    /\ pc = "done" /\ canonical.saved
    /\ Len(canonical.packages) = 1
    /\ canonical.packages[1].packfiles
    /\ canonical.packages[1].files # <<>>
    /\ canonical.other_files # <<>>
    /\ PackedListedIn(canonical) \ {Root} # {}

\* C7: a package with packfiles = false keeps its file list: no add_data
\* call and no warning comes from it, and the list pack() started from is
\* the one written to the manifest.
C7_UnpackedUntouched ==
    /\ Len(packages) = Len(manifest0.packages)
    /\ \A i \in 1..Len(packages) :
        ~manifest0.packages[i].packfiles =>
            /\ packages[i] = manifest0.packages[i]
            /\ \A k \in 1..Len(calls) : calls[k].by # packages[i].name
            /\ \A k \in 1..Len(warnings) : warnings[k].by # packages[i].name
            /\ canonical.saved => canonical.packages[i] = manifest0.packages[i]

\* a closed archive for a package with packfiles = false that lists a file
\* on disk and a missing one
C7_Witness ==
    /\ pc = "done" /\ canonical.saved
    /\ Len(packages) = 1
    /\ ~packages[1].packfiles
    /\ \E x, y \in SeqRange(canonical.packages[1].files) :
        Exists(fs, x) /\ x # Root /\ ~Exists(fs, y)

----------------------------------------------------------------------------
(* Claims about PackBuilder.add_data, under SpecBuilder *)

\* the paths add_data walks for the requests made so far that are on disk
RequestedOnDisk ==
    {q \in UNION {WalkedPrefixes(p) : p \in requested} : Exists(fs, q)}

AllWalkedSeen(p) == WalkedPrefixes(p) \subseteq seen

DataEntriesMatchLedger ==
    LET data == DataMembers(tar) IN
    /\ Len(data) = Cardinality(seen)
    /\ \A i, j \in 1..Len(data) : data[i].arcname = data[j].arcname => i = j
    /\ {data[i].arcname : i \in 1..Len(data)} = {data_path(q) : q \in seen}
    /\ seen = RequestedOnDisk
    /\ Root \notin seen
    /\ (call.op = "add_data" /\ ~call.raised) => AllWalkedSeen(call.arg)

\* every step of SpecBuilder is an add_data call, of argument call'.arg
RepeatedAddDataIsNoOp ==
    (call'.op = "add_data" /\ AllWalkedSeen(call'.arg))
        => UNCHANGED <<tar, seen>>

\* C3: after any sequence of add_data calls the archive holds exactly one
\* DATA entry per requested non-root path prefix (of those on disk, the
\* only ones tar.add accepts), as many entries as the seen ledger has
\* paths, and a call whose path and prefixes are all seen changes neither
\* the archive nor the ledger.
C3_OneEntryPerPrefix ==
    [](DataEntriesMatchLedger) /\ [][RepeatedAddDataIsNoOp]_vars

\* two requested paths share an ancestor and the last call returned early
C3_Witness ==
    /\ \E p, q \in requested :
        /\ p # q
        /\ Len(p) >= 2 /\ Len(q) >= 2 /\ p[1] = q[1]
        /\ {p, q} \subseteq seen
    /\ call.op = "add_data" /\ call.early
    /\ Len(tar) = 3

\* C4: the DATA entries are ancestor-closed: with an entry for p the
\* archive has an entry for every proper ancestor of p below the root.
C4_AncestorClosed ==
    \A i \in 1..Len(tar) :
        IsData(tar[i]) =>
            \A q \in WalkedPrefixes(tar[i].name) :
                \E j \in 1..Len(tar) : tar[j].arcname = data_path(q)

\* a nested path was requested again and add_data returned early
C4_Witness ==
    /\ call.op = "add_data" /\ call.early /\ Len(call.arg) >= 2
    /\ \E i \in 1..Len(tar) : tar[i].name = call.arg

----------------------------------------------------------------------------
(* Claims about expand_patterns, under SpecExpand *)

\* C8: expand_patterns returns every matched file and every matched
\* directory (below the root) that is not a proper ancestor of another
\* matched path.
C8_ExactResult ==
    expanded.called =>
        expanded.result =
            MatchedFiles(fs, patterns) \cup
            {d \in MatchedDirs(fs, patterns) \ {Root} :
                ~\E q \in Matched(fs, patterns) : IsProperAncestor(d, q)}

\* C9: no two returned entries are ancestor and descendant, and the root
\* is never returned.
C9_NoNesting ==
    expanded.called =>
        /\ Root \notin expanded.result
        /\ \A p, q \in expanded.result : ~IsProperAncestor(p, q)

\* a directory is matched together with two entries beneath it
C9_Witness ==
    /\ expanded.called
    /\ Cardinality(expanded.result) >= 2
    /\ \E d \in MatchedDirs(fs, patterns) \ {Root} :
        \E q \in expanded.result : IsProperAncestor(d, q)

----------------------------------------------------------------------------
(* Claims about data_path, under SpecPath *)

\* C10: data_path returns DATA followed by the root-stripped components,
\* none of them an up-level segment, also for inputs whose '..' segments
\* climb above the root (/a/../../b maps to DATA/b, /a/b/../a to DATA/a/a).
C10_NoUpLevel ==
    arcname.called =>
        LET r == arcname.result IN
        /\ Len(r) >= 1 /\ r[1] = "DATA"
        /\ \A i \in 2..Len(r) : r[i] \in Names
        /\ Len(r) - 1 <= Cardinality({i \in 1..Len(rawname) : rawname[i] \in Names})
        /\ (\A i \in 1..Len(rawname) : rawname[i] \in Names) => r = <<"DATA">> \o rawname
        /\ rawname = <<"a", "..", "..", "b">> => r = <<"DATA", "b">>
        /\ rawname = <<"a", "b", "..", "a">> => r = <<"DATA", "a", "a">>

\* an input whose '..' segments climb above the root
C10_Witness ==
    /\ arcname.called
    /\ rawname = <<"a", "..", "..", "b">>
    /\ arcname.result = <<"DATA", "b">>

\* C11 as claimed: two distinct absolute paths never map to the same
\* archive path.
C11_DistinctNeverCollide ==
    (arcname.called /\ otherarc.called /\ rawname # othername) =>
        arcname.result # otherarc.result

\* C11, amended: two paths that are distinct PosixPath values (distinct
\* once '.' and '..' segments are resolved) never map to the same archive
\* path, and two that are the same PosixPath value map to the same one.
C11_InjectiveOnValues ==
    (arcname.called /\ otherarc.called) =>
        (arcname.result = otherarc.result
            <=> PosixPath(rawname) = PosixPath(othername))

\* two paths that differ only in their last component, one written with
\* an up-level segment
C11_Witness ==
    /\ arcname.called /\ otherarc.called
    /\ rawname = <<"a", "b", "..", "a">>
    /\ othername = <<"a", "b">>
    /\ arcname.result # otherarc.result

\* the directories the rows require, row by row
RequiredBy(r) ==
    IF r.mode = "WDIR" THEN {r.name}
    ELSE IF r.mode = "WRITE" THEN {Parent(r.name)}
    ELSE {}

\* C12: list_directories returns exactly the set holding the path of each
\* working-directory row and the parent of the path of each written row,
\* nothing for a row of another mode, and leaves the trace as it was.
C12_ExactDirectories ==
    /\ [](listed.called =>
            listed.result = UNION {RequiredBy(r) : r \in opened_files})
    /\ [][opened_files' = opened_files]_vars

\* a working directory and a file written in another directory
C12_Witness ==
    /\ listed.called
    /\ opened_files = {[name |-> <<"b">>, mode |-> "WDIR"],
                       [name |-> <<"a", "b">>, mode |-> "WRITE"]}
    /\ listed.result = {<<"b">>, <<"a">>}

\* C13 as claimed: after close(), every mutating operation (add, add_data
\* and a further close) fails with an error, adds no entry and leaves the
\* session closed.
C13_AllFailAfterClose ==
    [][session = "closed" =>
        /\ call'.raised
        /\ tar' = tar
        /\ session' = "closed"]_vars

\* C13, amended: after close(), add and add_data fail with an error, a
\* further close returns without one, and none of the three adds an
\* entry, re-opens the session or restores the ledger.
C13_ClosedIsFinal ==
    [][session = "closed" =>
        /\ call'.op \in {"add", "add_data"} => call'.raised
        /\ call'.op = "close" => ~call'.raised
        /\ tar' = tar
        /\ seen' = seen
        /\ session' = "closed"]_vars

\* an add_data refused by a closed builder that holds entries
C13_Witness ==
    /\ session = "closed"
    /\ call.op = "add_data" /\ call.raised
    /\ Len(DataMembers(tar)) > 0
    /\ Len(tar) > Len(DataMembers(tar))

\* the files of package p, before and after a step
FilesOf(p) == heap[pkgref[p].files]

FilesOfNext(p) == heap'[pkgref'[p].files]

\* C14: each Package owns its list of files: a step that changes the list
\* of one package (add_file, pruning) changes neither the list of another
\* package nor the list the caller passed nor the default list, a step
\* that changes the caller's list changes no package's, and a package
\* just constructed holds the items of the list it was given.
C14_ListsNotShared ==
    [][/\ \A p \in DOMAIN pkgref :
            FilesOfNext(p) # FilesOf(p) =>
                /\ \A q \in DOMAIN pkgref \ {p} : FilesOfNext(q) = FilesOf(q)
                /\ heap'["caller"] = heap["caller"]
       /\ heap'["default"] = <<>>
       /\ \A p \in DOMAIN pkgref' \ DOMAIN pkgref :
            /\ FilesOfNext(p) = heap[pkgref'[p].given]
            /\ \A q \in DOMAIN pkgref : FilesOfNext(q) = FilesOf(q)]_vars

\* two packages constructed from the default list, one of which was then
\* given a file
C14_Witness ==
    /\ DOMAIN pkgref = PackageIds
    /\ \A p \in PackageIds : pkgref[p].given = "default"
    /\ heap[pkgref["p"].files] = <<"f">>
    /\ heap[pkgref["q"].files] = <<>>
    /\ heap["default"] = <<>>

\* the entry of path p stands before position i of the archive
EntryBefore(p, i) == \E j \in 1..(i - 1) : tar[j].name = p

\* C15: across any sequence of add_data calls, the entry of every proper
\* ancestor below the root of an entry's path stands strictly earlier in
\* the archive than the entry.
C15_RootToLeaf ==
    \A i \in 1..Len(tar) :
        IsData(tar[i]) =>
            \A k \in 1..(Len(tar[i].name) - 1) :
                EntryBefore(SubSeq(tar[i].name, 1, k), i)

\* two calls, the second for a path in another directory than the first
C15_Witness ==
    /\ Cardinality(requested) = 2
    /\ Len(tar) = 3
    /\ Len(tar[3].name) = 2
    /\ Len(tar[1].name) = 1
    /\ tar[1].name # SubSeq(tar[3].name, 1, 1)

\* the positions of a step in the trail
StepsAt(step) == {i \in 1..Len(trail) : trail[i] = step}

Once(step) == Cardinality(StepsAt(step)) = 1

AllBefore(a, b) == \A i \in StepsAt(a), j \in StepsAt(b) : i < j

\* the loop a call to add_data was made from: 1 a package's, 2 the loose
\* files', 3 the trace directories'
LoopOf(c) == IF c.by = "dir" THEN 3 ELSE IF c.by = "other" THEN 2 ELSE 1

\* the loop of the first call that walked over path p
OriginOf(p) ==
    LET walking == {k \in 1..Len(calls) : p \in WalkedPrefixes(calls[k].path)}
        first == CHOOSE k \in walking : \A l \in walking : k <= l
    IN LoopOf(calls[first])

StepsInOrder ==
    /\ Once("canonicalize") /\ Once("open")
    /\ IF traceFile = "absent" THEN StepsAt("trace") = {} ELSE Once("trace")
    /\ Once("others") /\ Once("list_directories")
    /\ Once("version") /\ Once("config") /\ Once("close")
    /\ AllBefore("canonicalize", "open") /\ AllBefore("open", "trace")
    /\ AllBefore("trace", "package") /\ AllBefore("trace", "others")
    /\ AllBefore("package", "others")
    /\ AllBefore("others", "list_directories")
    /\ AllBefore("list_directories", "directory")
    /\ AllBefore("list_directories", "version")
    /\ AllBefore("directory", "version")
    /\ AllBefore("version", "config") /\ AllBefore("config", "close")
    /\ trail[Len(trail)] = "close"

\* the position of the first entry after the trace copy, if there is one
FirstData == IF StepsAt("trace") = {} THEN 1 ELSE 2

EntriesInOrder ==
    /\ Len(tar) >= FirstData + 1
    /\ FirstData = 2 => tar[1] = MetaMember("trace", "trace.sqlite3")
    /\ tar[Len(tar) - 1] = MetaMember("tmp_version", "version")
    /\ tar[Len(tar)] = MetaMember("tmp_config", "config.yml")
    /\ \A i \in FirstData..(Len(tar) - 2) :
        /\ IsData(tar[i])
        /\ \E k \in 1..Len(calls) : tar[i].name \in WalkedPrefixes(calls[k].path)
    /\ \A i, j \in FirstData..(Len(tar) - 2) :
        i < j => OriginOf(tar[i].name) <= OriginOf(tar[j].name)
    /\ \A k, l \in 1..Len(calls) : k < l => LoopOf(calls[k]) <= LoopOf(calls[l])

ManifestAsPruned ==
    /\ canonical.saved
    /\ canonical.runs = manifest0.runs
    /\ canonical.packages = packages
    /\ canonical.other_files = other_files
    /\ other_files = OnDisk(manifest0.other_files)
    /\ Len(packages) = Len(manifest0.packages)
    /\ \A i \in 1..Len(packages) :
        packages[i] =
            IF manifest0.packages[i].packfiles
            THEN [manifest0.packages[i] EXCEPT !.files = OnDisk(@)]
            ELSE manifest0.packages[i]

\* C16: in every successful pack the steps run in the documented order:
\* the trace copy is the first entry, the DATA entries follow, those that
\* the packages' files brought before those of the loose files before those
\* of the trace's directories, METADATA/version and then
\* METADATA/config.yml come last, each once, and close is the last step;
\* the manifest written is the one left by the pruning, with the run
\* descriptions as loaded.
C16_PipelineOrder ==
    status = "success" =>
        /\ pc = "done" /\ session = "closed"
        /\ StepsInOrder
        /\ EntriesInOrder
        /\ ManifestAsPruned

\* a successful pack whose three loops each brought an entry
C16_Witness ==
    /\ status = "success"
    /\ tar[1] = MetaMember("trace", "trace.sqlite3")
    /\ \A n \in 1..3 :
        \E i \in 1..Len(tar) : IsData(tar[i]) /\ OriginOf(tar[i].name) = n
    /\ Len(manifest0.runs) = 2
    /\ warnings # <<>>

\* C17: the temporary files of the version marker and of the manifest are
\* on disk only while their step runs: whether the writing and the adding
\* succeed or raise, none is left once pack() has returned or raised.
C17_TempFilesRemoved ==
    /\ pc = "version_add" => tmpfiles = {"version"}
    /\ pc = "config_add" => tmpfiles = {"config"}
    /\ pc \notin {"version_add", "config_add"} => tmpfiles = {}

\* an I/O error while the manifest's temporary file was on disk
C17_Witness ==
    /\ pc = "raised" /\ exc = "IOError"
    /\ trail[Len(trail)] = "failed_config"
    /\ tmpfiles = {}

DirCalls == {calls[k].path : k \in {i \in 1..Len(calls) : calls[i].by = "dir"}}

\* C18: of the directories the trace requires, the ones that are
\* directories on disk are passed to add_data and no other is; one that is
\* missing is skipped: no error, no entry, and the pack goes on.
C18_MissingDirectorySkipped ==
    /\ DirCalls = {d \in required \ dirsLeft : IsDir(fs, d)}
    /\ \A d \in required : ~Exists(fs, d) => ~HasMember(data_path(d))
    /\ exc # "OSError"
    /\ (pc = "dirs" /\ status = "running") => dirsLeft # {}
    /\ (pc \in {"version", "version_add", "config_tmp", "config_add", "close",
                "done"} /\ session # "none") => dirsLeft = {}

\* a successful pack whose trace required a directory that is missing and
\* one that is there
C18_Witness ==
    /\ status = "success"
    /\ \E d \in required : ~Exists(fs, d)
    /\ DirCalls # {}

\* the second call of pack() for a target
SecondCall == session = "none" /\ target = "partial"

\* C19: an I/O error after the archive was opened ends pack() at once
\* with a failure: no step follows it, the archive is never closed or
\* retried, and the unfinished target stays on disk, so that a second
\* pack() to the same target exits at the target check.
C19_FailureLeavesPartial ==
    /\ [](/\ exc = "IOError" =>
              /\ pc = "raised" /\ status = "failure"
              /\ target = "partial" /\ session = "open"
              /\ Cardinality({i \in 1..Len(trail) :
                     trail[i] \in {FailedAt[s] : s \in IoSteps}}) = 1
              /\ trail[Len(trail)] \in {FailedAt[s] : s \in IoSteps}
          /\ SecondCall =>
              /\ pc \in {"start", "exit"}
              /\ tar = <<>> /\ trail = <<>> /\ calls = <<>>
              /\ pc = "exit" => status = "failure" /\ exc = "SystemExit")
    /\ [][/\ pc \in Terminal => (exc = "IOError" /\ SecondCall')
          /\ SecondCall => (pc = "start" /\ pc' = "exit")
          /\ target = "partial" => target' \in {"partial", "complete"}]_vars

\* the second pack() has exited at the target check
C19_Witness ==
    /\ SecondCall
    /\ pc = "exit"
    /\ status = "failure"

\* C20: two Files with the same path are equal and have the same hash,
\* whatever their sizes (None included); two Files with different paths are
\* not equal; a File is not equal to a value that is not a File.
C20_EqualByPath ==
    cmp.called =>
        /\ (fileB.kind = "File" /\ fileA.path = fileB.path) =>
                cmp.eq /\ cmp.hashA = cmp.hashB
        /\ (fileB.kind = "File" /\ fileA.path # fileB.path) => ~cmp.eq
        /\ fileB.kind # "File" => ~cmp.eq

\* a File whose stat failed compared with a File of the same path and a
\* known size
C20_Witness ==
    /\ cmp.called
    /\ fileB.kind = "File"
    /\ fileA.path = fileB.path
    /\ fileA.size = -1 /\ fileB.size = 1
    /\ cmp.eq

====
